---- MODULE Spec2Model ----
(***************************************************************************)
(* Model of the provider add/edit input logic of cc-switch-cli:            *)
(*   src/src-tauri/src/cli/commands/provider_input.rs                      *)
(*   src/src-tauri/src/cli/interactive/utils.rs                            *)
(*                                                                         *)
(* A Rust String is a sequence of one-character strings, so that trimming, *)
(* lowercasing, formatting, substring search and byte slicing are computed *)
(* the way the code computes them.  Option<T> is None or Some(v); a JSON   *)
(* object is a function from its keys to its values.                       *)
(***************************************************************************)
EXTENDS Integers, Sequences, FiniteSets, TLC

VARIABLES
    name,          \* generate_provider_id: the display name passed in
    existing_ids,  \* generate_provider_id: the slice of ids already taken
    new_id,        \* generate_provider_id: the id returned
    key,           \* mask_api_key: the secret passed in
    masked,        \* mask_api_key: what the call produced (a string, or a panic)
    current,       \* the existing profile / payload handed to a prompt_* function
    pc,            \* the position of the running function
    locals,        \* the running function's local variables
    result,        \* the running function's return value
    store          \* AppState: per app type, the profiles and the active id

vars == <<name, existing_ids, new_id, key, masked, current, pc, locals, result, store>>

----------------------------------------------------------------------------
(* Bounds of the model *)

MaxNameLen == 2
MaxExisting == 2
MaxKeyLen == 9
MaxLines == 2
MaxProfiles == 2

\* mask_api_key: `key.len() <= 8`, and the 4 bytes shown at each end
MaskThreshold == 8
MaskVisible == 4

----------------------------------------------------------------------------
(* Strings *)

SeqsUpTo(S, n) == UNION {[1..k -> S] : k \in 0..n}

Range(s) == {s[i] : i \in 1..Len(s)}

EmptyStr == <<>>

Whitespace == {" ", "\t"}

UpperCase == {"A", "I", "M", "O"}

LowerCase == {"a", "b", "c", "d", "e", "i", "k", "m", "n", "o", "p", "r", "x", "y"}

Digits == {"0", "1", "2", "3", "4", "5", "6", "7", "8", "9"}

\* char::to_lowercase on the characters the model uses
to_lowercase_char(c) ==
    CASE c = "A" -> "a"
      [] c = "I" -> "i"
      [] c = "M" -> "m"
      [] c = "O" -> "o"
      [] OTHER -> c

to_lowercase(s) == [i \in 1..Len(s) |-> to_lowercase_char(s[i])]

is_alphanumeric(c) == c \in UpperCase \cup LowerCase \cup Digits

is_whitespace(c) == c \in Whitespace

\* s with its leading and trailing characters of set C removed
\* (str::trim_matches for one character, str::trim for whitespace)
TrimSet(s, C) ==
    LET kept == {i \in 1..Len(s) : s[i] \notin C}
    IN  IF kept = {} THEN EmptyStr
        ELSE LET first == CHOOSE i \in kept : \A j \in kept : i <= j
                 last  == CHOOSE i \in kept : \A j \in kept : j <= i
             IN  SubSeq(s, first, last)

trim_matches(s, c) == TrimSet(s, {c})

trim(s) == TrimSet(s, Whitespace)

DigitChar(d) ==
    CASE d = 0 -> "0" [] d = 1 -> "1" [] d = 2 -> "2" [] d = 3 -> "3"
      [] d = 4 -> "4" [] d = 5 -> "5" [] d = 6 -> "6" [] d = 7 -> "7"
      [] d = 8 -> "8" [] d = 9 -> "9"

\* Display of a non-negative integer: its decimal digits
RECURSIVE to_string(_)
to_string(n) ==
    IF n < 10 THEN <<DigitChar(n)>>
    ELSE to_string(n \div 10) \o <<DigitChar(n % 10)>>

\* slice::contains
contains(list, x) == \E i \in 1..Len(list) : list[i] = x

----------------------------------------------------------------------------
(* generate_provider_id *)

\* the closure of the .map(): what one character of the lowercased name becomes
kebab_char(c) ==
    IF is_alphanumeric(c) \/ c = "-" \/ c = "_" THEN c
    ELSE IF is_whitespace(c) THEN "-"
    ELSE "-"

base_id_mut_no_trim(n) == [i \in 1..Len(n) |-> kebab_char(to_lowercase(n)[i])]

\* let base_id = name.to_lowercase().chars().map(..).collect().trim_matches('-')
base_id_of(n) ==
    trim_matches([i \in 1..Len(n) |-> kebab_char(to_lowercase(n)[i])], "-")

\* format!("{}-{}", base_id, counter)
candidate_of(base_id, counter) == base_id \o <<"-">> \o to_string(counter)

suffix_loop_mut_no_check(base_id, ids, counter) == candidate_of(base_id, counter)

\* the loop: the first candidate, counting from `counter`, that `ids` lacks
RECURSIVE suffix_loop(_, _, _)
suffix_loop(base_id, ids, counter) ==
    IF ~contains(ids, candidate_of(base_id, counter))
    THEN candidate_of(base_id, counter)
    ELSE suffix_loop(base_id, ids, counter + 1)

generate_provider_id(n, ids) ==
    LET base_id == base_id_of(n)
    IN  IF ~contains(ids, base_id) THEN base_id
        ELSE suffix_loop(base_id, ids, 1)

\* Inputs of generate_provider_id
NameAlphabet == {"A", "a", "_", "-", " ", "!"}

OpenAIMirror == <<"O","p","e","n"," ","A","I"," ","M","i","r","r","o","r">>

open_ai_mirror == <<"o","p","e","n","-","a","i","-","m","i","r","r","o","r">>

Names == SeqsUpTo(NameAlphabet, MaxNameLen) \cup {OpenAIMirror}

ExistingIdPool ==
    { EmptyStr, <<"a">>, <<"a","-","1">>, <<"a","-","2">>, <<"-","1">>,
      open_ai_mirror }

ExistingLists == SeqsUpTo(ExistingIdPool, MaxExisting)

----------------------------------------------------------------------------
(* Option, Result and the outcome of a prompt *)

None == [some |-> FALSE]

Some(x) == [some |-> TRUE, v |-> x]

Ok(x) == [tag |-> "Ok", v |-> x]

\* AppError::Message(..) and the other error variants, with what caused them
Err(kind, cause) == [tag |-> "Err", kind |-> kind, cause |-> cause]

\* What inquire's prompt() gives back: the submitted text (or choice), or an
\* InquireError: the user pressed Esc (OperationCanceled) or Ctrl-C
\* (OperationInterrupted), or the terminal failed (NotTTY)
Submitted(x) == [ok |-> TRUE, v |-> x, err |-> "none"]

Failed(e) == [ok |-> FALSE, v |-> EmptyStr, err |-> e]

InquireErrors == {"OperationCanceled", "OperationInterrupted", "NotTTY"}

\* .map_err(|e| AppError::Message(texts::input_failed_error(&e.to_string())))
input_failed(e) == Err("Message", e)

\* utils.rs handle_inquire: a cancelled prompt is Ok(None), not an error
handle_inquire(r) ==
    IF r.ok THEN Ok(Some(r.v))
    ELSE IF r.err \in {"OperationCanceled", "OperationInterrupted"} THEN Ok(None)
    ELSE Err("Message", r.err)

\* What the user may submit at a text prompt that starts from `initial`
\* (with_initial_value; a placeholder starts from the empty text): the text
\* as it stands, nothing, or something typed with spaces around it; the
\* prompts of the flat profile fields are also given a whitespace-only text
TypedTexts == {EmptyStr, <<" ", "x", " ">>}

FieldAnswers(initial) ==
    {Submitted(t) : t \in TypedTexts \cup {<<" ">>, initial}}
        \cup {Failed(e) : e \in InquireErrors}

TextAnswers(initial) ==
    {Submitted(t) : t \in TypedTexts \cup {initial}} \cup {Failed(e) : e \in InquireErrors}

\* a Confirm prompt (a failed one carries no answer: v is a filler)
ConfirmAnswers ==
    {Submitted(b) : b \in BOOLEAN}
        \cup {[ok |-> FALSE, v |-> FALSE, err |-> e] : e \in InquireErrors}

\* Option<&str>::unwrap_or("")
unwrap_or_empty(o) == IF o.some THEN o.v ELSE EmptyStr

\* if s.trim().is_empty() { None } else { Some(s.trim().to_string()) }
trimmed_or_none(s) == IF trim(s) = EmptyStr THEN None ELSE Some(trim(s))

----------------------------------------------------------------------------
(* usize: held as its canonical decimal digits (usize::MAX = 2^64 - 1 is    *)
(* beyond the integers of the checker)                                     *)

UsizeMaxDigits ==
    <<"1","8","4","4","6","7","4","4","0","7","3","7","0","9","5","5","1","6","1","5">>

usize_to_string(n) == n

DigitValue(c) == CHOOSE d \in 0..9 : DigitChar(d) = c

\* a < b for digit strings of the same length
RECURSIVE digits_less(_, _)
digits_less(a, b) ==
    IF a = <<>> THEN FALSE
    ELSE IF DigitValue(Head(a)) # DigitValue(Head(b))
         THEN DigitValue(Head(a)) < DigitValue(Head(b))
         ELSE digits_less(Tail(a), Tail(b))

strip_leading_zeros(d) ==
    LET nz == {i \in 1..Len(d) : d[i] # "0"}
    IN  IF nz = {} THEN <<"0">>
        ELSE SubSeq(d, CHOOSE i \in nz : \A j \in nz : i <= j, Len(d))

\* the value of a digit string is above usize::MAX
overflows(d) ==
    LET n == strip_leading_zeros(d)
    IN  \/ Len(n) > Len(UsizeMaxDigits)
        \/ (Len(n) = Len(UsizeMaxDigits) /\ digits_less(UsizeMaxDigits, n))

\* str::parse::<usize> without the overflow check
parse_usize_mut_no_overflow(s) ==
    LET digits == IF s # <<>> /\ Head(s) = "+" THEN Tail(s) ELSE s
    IN  IF s = <<>> THEN Err("ParseIntError", "Empty")
        ELSE IF digits = <<>> \/ \E i \in 1..Len(digits) : digits[i] \notin Digits
        THEN Err("ParseIntError", "InvalidDigit")
        ELSE Ok(strip_leading_zeros(digits))

\* str::parse::<usize>: an optional '+', then one or more decimal digits, the
\* value at most usize::MAX.  The empty text is an error of kind Empty; the
\* text is otherwise read from the left and the first character that is not
\* a digit (InvalidDigit) or takes the value above usize::MAX (PosOverflow)
\* ends the parse with its error
parse_usize(s) ==
    LET digits == IF s # <<>> /\ Head(s) = "+" THEN Tail(s) ELSE s
        failing == {i \in 1..Len(digits) :
                       \/ digits[i] \notin Digits
                       \/ /\ \A j \in 1..i : digits[j] \in Digits
                          /\ overflows(SubSeq(digits, 1, i))}
        first   == CHOOSE i \in failing : \A j \in failing : i <= j
    IN  IF s = <<>> THEN Err("ParseIntError", "Empty")
        ELSE IF digits = <<>> THEN Err("ParseIntError", "InvalidDigit")
        ELSE IF failing = {} THEN Ok(strip_leading_zeros(digits))
        ELSE IF digits[first] \notin Digits THEN Err("ParseIntError", "InvalidDigit")
        ELSE Err("ParseIntError", "PosOverflow")

----------------------------------------------------------------------------
(* Provider, OptionalFields, prompt_basic_fields, prompt_optional_fields *)

\* OptionalFields::from_provider
from_provider(provider) ==
    [notes |-> provider.notes, icon |-> provider.icon,
     icon_color |-> provider.icon_color, sort_index |-> provider.sort_index]

\* the initial value of a text prompt: a field of the profile being edited,
\* nothing in add mode
NameInitial(cur) == IF cur.some THEN cur.v.name ELSE EmptyStr

WebsiteInitial(cur) == IF cur.some THEN unwrap_or_empty(cur.v.website_url) ELSE EmptyStr

NotesInitial(cur) == IF cur.some THEN unwrap_or_empty(cur.v.notes) ELSE EmptyStr

SortIndexInitial(cur) ==
    IF cur.some /\ cur.v.sort_index.some THEN usize_to_string(cur.v.sort_index.v)
    ELSE EmptyStr

\* the sort_index of prompt_optional_fields, from the text submitted
sort_index_of(sort_index_str) ==
    IF trim(sort_index_str) = EmptyStr THEN Ok(None)
    ELSE LET parsed == parse_usize(trim(sort_index_str))
         IN  IF parsed.tag = "Ok" THEN Ok(Some(parsed.v))
             ELSE Err("InvalidInput", "invalid_sort_index_number")

\* Ok(OptionalFields { notes, icon: None, icon_color: None, sort_index })
optional_fields_of(cur, notes, sort_index) ==
    [notes |-> notes, icon |-> None, icon_color |-> None, sort_index |-> sort_index]

\* The profiles an edit may start from
StoredTexts == {None, Some(<<"n">>)}

StoredSortIndexes == {None, Some(<<"0">>), Some(<<"1", "2">>)}

Providers ==
    [name : {<<"a">>}, website_url : StoredTexts, notes : StoredTexts,
     icon : StoredTexts, icon_color : StoredTexts, sort_index : StoredSortIndexes]

SortIndexTexts ==
    {EmptyStr, <<" ">>, <<" ", "7", " ">>, <<"+", "7">>, <<"0", "0", "7">>, <<"-", "1">>,
     <<"x">>, <<"1", ".", "5">>, UsizeMaxDigits,
     SubSeq(UsizeMaxDigits, 1, 19) \o <<"6">>,
     SubSeq(UsizeMaxDigits, 1, 19) \o <<"6", "x">>}

SortIndexAnswers(initial) ==
    {Submitted(t) : t \in SortIndexTexts \cup {initial}} \cup {Failed(e) : e \in InquireErrors}

NoLocals == [fn |-> "none"]

----------------------------------------------------------------------------
(* serde_json::Value: an object is a function from its keys to its values; *)
(* the values under "env" and "auth" are strings                           *)

EmptyObject == [k \in {} |-> EmptyStr]

insert(map, k, v) == [x \in DOMAIN map \cup {k} |-> IF x = k THEN v ELSE map[x]]

\* current.and_then(|v| v.get(section))
section_of(cur, section) ==
    IF cur.some /\ section \in DOMAIN cur.v THEN Some(cur.v[section]) ELSE None

\* current.and_then(|v| v.get(section)).and_then(|e| e.get(k)).and_then(|x| x.as_str())
str_at(cur, section, k) ==
    LET sec == section_of(cur, section)
    IN  IF sec.some /\ k \in DOMAIN sec.v THEN Some(sec.v[k]) ELSE None

\* ... .filter(|s| !s.is_empty())
nonempty_str_at(cur, section, k) ==
    LET x == str_at(cur, section, k)
    IN  IF x.some /\ x.v # EmptyStr THEN x ELSE None

----------------------------------------------------------------------------
(* prompt_model_field, prompt_claude_config *)

ModelKeys ==
    <<"ANTHROPIC_MODEL", "ANTHROPIC_DEFAULT_HAIKU_MODEL",
      "ANTHROPIC_DEFAULT_SONNET_MODEL", "ANTHROPIC_DEFAULT_OPUS_MODEL">>

\* what prompt_model_field returns for the text submitted
model_field_of(input, existing_value) ==
    IF trim(input) = EmptyStr
    THEN (IF existing_value.some THEN None ELSE None)
    ELSE Some(trim(input))

\* if let Some(value) = model { env.insert(key, json!(value)); }
insert_some(env, k, o) == IF o.some THEN insert(env, k, o.v) ELSE env

\* the env that prompt_claude_config builds from its locals
claude_env(l) ==
    LET base == insert(insert(EmptyObject, "ANTHROPIC_AUTH_TOKEN", trim(l.api_key)),
                       "ANTHROPIC_BASE_URL", trim(l.base_url))
    IN  IF l.config_models
        THEN insert_some(insert_some(insert_some(insert_some(base,
                 ModelKeys[1], l.models[1]), ModelKeys[2], l.models[2]),
                 ModelKeys[3], l.models[3]), ModelKeys[4], l.models[4])
        ELSE base

\* Ok(json!({ "env": env }))
claude_config_of(l) == Ok([env |-> claude_env(l)])

\* The payloads an edit of a Claude profile may start from: what this flow
\* writes (the two required keys, any of the model overrides), with or
\* without a key written by another producer of the same store
ClaudeEnvs ==
    {[k \in {"ANTHROPIC_AUTH_TOKEN", "ANTHROPIC_BASE_URL"} \cup models \cup other |->
        CASE k = "ANTHROPIC_AUTH_TOKEN" -> token
          [] k = "ANTHROPIC_BASE_URL" -> url
          [] k = "API_TIMEOUT_MS" -> <<"9">>
          [] OTHER -> <<"m">>] :
        token \in {EmptyStr, <<"t">>}, url \in {EmptyStr, <<"u">>},
        models \in SUBSET Range(ModelKeys), other \in SUBSET {"API_TIMEOUT_MS"}}

ClaudeCurrents == {None, Some(EmptyObject)} \cup {Some([env |-> e]) : e \in ClaudeEnvs}

ClaudeLocals ==
    [fn |-> "prompt_claude_config", api_key |-> EmptyStr, base_url |-> EmptyStr,
     config_models |-> FALSE, inputs |-> <<>>, models |-> <<>>]

BasicLocals ==
    [fn |-> "prompt_basic_fields", name_input |-> EmptyStr, name |-> EmptyStr,
     website_url_input |-> EmptyStr]

OptionalLocals ==
    [fn |-> "prompt_optional_fields", notes_input |-> EmptyStr, notes |-> None,
     sort_index_str |-> EmptyStr]

TextLocals == [fn |-> "prompt_text"]

----------------------------------------------------------------------------
(* prompt_codex_config *)

\* lines.join("\n")
RECURSIVE join_lines(_)
join_lines(lines) ==
    IF lines = <<>> THEN EmptyStr
    ELSE IF Len(lines) = 1 THEN lines[1]
    ELSE lines[1] \o <<"\n">> \o join_lines(Tail(lines))

\* the lines of a text: what lies between its "\n"
RECURSIVE split_lines(_)
split_lines(text) ==
    LET breaks == {i \in 1..Len(text) : text[i] = "\n"}
    IN  IF breaks = {} THEN <<text>>
        ELSE LET b == CHOOSE i \in breaks : \A j \in breaks : i <= j
             IN  <<SubSeq(text, 1, b - 1)>> \o split_lines(SubSeq(text, b + 1, Len(text)))

\* the built-in default: base_url = "https://api.openai.com"\nmodel = "gpt-4"
DefaultToml ==
    <<"b","a","s","e","_","u","r","l"," ","="," ","\"","h","t","t","p","s",
      ":","/","/","a","p","i",".","o","p","e","n","a","i",".","c","o","m",
      "\"","\n","m","o","d","e","l"," ","="," ","\"","g","p","t","-","4",
      "\"">>

\* the lines of end-to-end scenario 4: base_url = "x" and the unbalanced
\* model = [1,2
LineBaseUrl ==
    <<"b","a","s","e","_","u","r","l"," ","="," ","\"","x","\"">>

LineUnbalanced ==
    <<"m","o","d","e","l"," ","="," ","[","1",",","2">>

\* codex_config::validate_config_toml, the structured-text validation
\* boundary: pass or fail.  A text fails when a line opens an array it does
\* not close.
validate_config_toml(text) ==
    \A i \in 1..Len(split_lines(text)) :
        LET line == split_lines(text)[i]
        IN  Cardinality({j \in 1..Len(line) : line[j] = "["})
                = Cardinality({j \in 1..Len(line) : line[j] = "]"})

\* let default_toml = current.and_then(|v| v.get("config")).and_then(|c| c.as_str())
\*     .unwrap_or("base_url = ...")
default_toml_of(cur) ==
    IF section_of(cur, "config").some THEN section_of(cur, "config").v ELSE DefaultToml

\* the loop that breaks at every blank line
loop_breaks_mut_any_blank(line, lines) == trim(line) = EmptyStr

\* if line.trim().is_empty() && !lines.is_empty() { break; }
loop_breaks(line, lines) == trim(line) = EmptyStr /\ lines # <<>>

\* if !line.trim().is_empty() { lines.push(line); }
line_is_pushed(line) == trim(line) # EmptyStr

\* if lines.is_empty() { default_toml.to_string() } else { lines.join("\n") }
entered_toml_of(cur, lines) ==
    IF lines = <<>> THEN default_toml_of(cur) ELSE join_lines(lines)

codex_config_mut_no_validation(api_key, config_toml) ==
    Ok([auth |-> [OPENAI_API_KEY |-> trim(api_key)], config |-> config_toml])

\* codex_config::validate_config_toml(&config_toml)?; Ok(json!({"auth": .., "config": ..}))
codex_config_of(api_key, config_toml) ==
    IF ~validate_config_toml(config_toml)
    THEN Err("Toml", "invalid config.toml")
    ELSE Ok([auth |-> [OPENAI_API_KEY |-> trim(api_key)], config |-> config_toml])

CodexCurrents ==
    {None, Some(EmptyObject)}
        \cup {Some([auth |-> [OPENAI_API_KEY |-> k], config |-> text]) :
                k \in {EmptyStr, <<"k">>}, text \in {DefaultToml, LineBaseUrl}}

\* what the user may enter at the line prompt of the loop
LineTexts == {EmptyStr, <<" ">>, LineBaseUrl, LineUnbalanced}

LineAnswers == {Submitted(t) : t \in LineTexts} \cup {Failed(e) : e \in InquireErrors}

CodexLocals ==
    [fn |-> "prompt_codex_config", api_key |-> EmptyStr, use_default |-> TRUE,
     line |-> None, lines |-> <<>>, config_toml |-> None]

----------------------------------------------------------------------------
(* detect_gemini_auth_type, prompt_gemini_config *)

\* a JSON value that is not an object
JsonNull == [json_null |-> TRUE]

\* Value::as_object().is_some()
is_object(v) == v # JsonNull

PackyMarker == <<"p","a","c","k","y","c","o","d","e">>

\* str::contains
contains_str(s, m) ==
    \E i \in 0..(Len(s) - Len(m)) : SubSeq(s, i + 1, i + Len(m)) = m

detect_mut_no_key_is_oauth(value) ==
    LET env == section_of(value, "env")
    IN  IF env.some /\ "GEMINI_API_KEY" \in DOMAIN env.v
        THEN (IF str_at(value, "env", "GOOGLE_GEMINI_BASE_URL").some
                 /\ contains_str(str_at(value, "env", "GOOGLE_GEMINI_BASE_URL").v, PackyMarker)
              THEN Some("packycode") ELSE Some("generic"))
        ELSE Some("oauth")

detect_gemini_auth_type(value) ==
    LET env == section_of(value, "env")
    IN  IF env.some /\ "GEMINI_API_KEY" \in DOMAIN env.v
        THEN (IF str_at(value, "env", "GOOGLE_GEMINI_BASE_URL").some
                 /\ contains_str(str_at(value, "env", "GOOGLE_GEMINI_BASE_URL").v, PackyMarker)
              THEN Some("packycode") ELSE Some("generic"))
        ELSE IF ~env.some \/ ~is_object(env.v) \/ DOMAIN env.v = {}
        THEN Some("oauth")
        ELSE None

\* the cursor the Select starts on: 0 OAuth, 1 PackyCode, 2 generic API key
default_index_of(current_auth_type) ==
    IF current_auth_type = Some("oauth") THEN 0
    ELSE IF current_auth_type = Some("packycode") THEN 1
    ELSE IF current_auth_type = Some("generic") THEN 2
    ELSE 1

\* the env key under which the chosen mode keeps its base url
gemini_url_key(auth_type) == IF auth_type = 1 THEN "GOOGLE_GEMINI_BASE_URL" ELSE "BASE_URL"

\* the payload prompt_gemini_config returns for the chosen mode
gemini_config_of(auth_type, api_key, base_url) ==
    IF auth_type = 0
    THEN Ok([env |-> EmptyObject, config |-> EmptyObject])
    ELSE Ok([env |-> insert(insert(EmptyObject, "GEMINI_API_KEY", trim(api_key)),
                            gemini_url_key(auth_type), trim(base_url)),
             config |-> EmptyObject])

\* https://packycode.com/api
PackyUrl ==
    <<"h","t","t","p","s",":","/","/","p","a","c","k","y","c","o","d","e",
      ".","c","o","m","/","a","p","i">>

\* https://x.example
OtherUrl ==
    <<"h","t","t","p","s",":","/","/","x",".","e","x","a","m","p","l","e">>

GeminiEnvs ==
    {[k \in keyd \cup gurld \cup burld \cup other |->
        CASE k = "GEMINI_API_KEY" -> apikey
          [] k = "GOOGLE_GEMINI_BASE_URL" -> gurl
          [] k = "BASE_URL" -> burl
          [] OTHER -> <<"p">>] :
        keyd \in SUBSET {"GEMINI_API_KEY"}, apikey \in {EmptyStr, <<"k">>},
        gurld \in SUBSET {"GOOGLE_GEMINI_BASE_URL"}, gurl \in {EmptyStr, PackyUrl, OtherUrl},
        burld \in SUBSET {"BASE_URL"}, burl \in {PackyUrl, OtherUrl},
        other \in SUBSET {"GOOGLE_CLOUD_PROJECT"}}

GeminiCurrents ==
    {None, Some(EmptyObject), Some([env |-> JsonNull, config |-> EmptyObject])}
        \cup {Some([env |-> e, config |-> EmptyObject]) : e \in GeminiEnvs}

SelectAnswers ==
    {Submitted(i) : i \in 0..2} \cup {[ok |-> FALSE, v |-> 0, err |-> e] : e \in InquireErrors}

UrlAnswers(initial) ==
    {Submitted(t) : t \in TypedTexts \cup {PackyUrl, initial}}
        \cup {Failed(e) : e \in InquireErrors}

GeminiLocals ==
    [fn |-> "prompt_gemini_config", current_auth_type |-> None, default_index |-> 0,
     auth_type |-> 0, api_key |-> EmptyStr, base_url |-> EmptyStr]

----------------------------------------------------------------------------
(* The profile store behind AppState: add, update, remove, set_active *)

\* AppType
AppTypes == {"claude", "codex", "gemini"}

StoreIds == {<<"a">>, <<"b">>}

StoreNames == {<<"A">>, <<"B">>}

\* the fields of a stored profile the store operations read or replace
StoredProfile(id, app_type, display_name) ==
    [id |-> id, app_type |-> app_type, name |-> display_name]

EmptyPartition == [providers |-> <<>>, current |-> None]

EmptyStore == [a \in AppTypes |-> EmptyPartition]

\* a snapshot holding one profile of one app type, active
OneActive(app_type, id) ==
    [EmptyStore EXCEPT ![app_type] =
        [providers |-> <<StoredProfile(id, app_type, <<"A">>)>>, current |-> Some(id)]]

\* what MultiAppConfig::load() may give: no file yet, or a saved snapshot
Snapshots == {EmptyStore, OneActive("claude", <<"a">>)}

\* get_state: Ok(AppState { config }) when load() succeeds, its error otherwise
get_state(loaded) ==
    IF loaded.tag = "Ok" THEN Ok(loaded.v) ELSE loaded

LoadResults == {Ok(sn) : sn \in Snapshots} \cup {Err("Io", "load")}

ids_in(partition) ==
    {partition.providers[i].id : i \in 1..Len(partition.providers)}

index_of(partition, id) ==
    CHOOSE i \in 1..Len(partition.providers) : partition.providers[i].id = id

remove_at(seq, i) == SubSeq(seq, 1, i - 1) \o SubSeq(seq, i + 1, Len(seq))

\* the outcome of an operation: the store afterwards and the value returned
Outcome(st, r) == [store |-> st, result |-> r]

Unit == EmptyStr

\* the persistence call after a mutation: a failed save rolls the mutation back
persist(old, new, save_ok) ==
    IF save_ok THEN Outcome(new, Ok(Unit))
    ELSE Outcome(old, Err("PersistenceError", "save"))

add(st, profile, save_ok) ==
    IF profile.id \in ids_in(st[profile.app_type])
    THEN Outcome(st, Err("Conflict", profile.id))
    ELSE persist(st, [st EXCEPT ![profile.app_type].providers = Append(@, profile)],
                 save_ok)

\* the mutator replaces the display name; id and app_type stay
update(st, app_type, id, display_name, save_ok) ==
    IF id \notin ids_in(st[app_type])
    THEN Outcome(st, Err("NotFound", id))
    ELSE persist(st, [st EXCEPT ![app_type].providers[index_of(st[app_type], id)].name =
                                    display_name],
                 save_ok)

\* remove that leaves the active pointer as it is
remove_mut_keep_active(st, app_type, id, save_ok) ==
    IF id \notin ids_in(st[app_type])
    THEN Outcome(st, Err("NotFound", id))
    ELSE persist(st, [st EXCEPT ![app_type].providers =
                                    remove_at(@, index_of(st[app_type], id))],
                 save_ok)

remove(st, app_type, id, save_ok) ==
    IF id \notin ids_in(st[app_type])
    THEN Outcome(st, Err("NotFound", id))
    ELSE persist(st, [st EXCEPT ![app_type] =
                         [providers |-> remove_at(@.providers, index_of(st[app_type], id)),
                          current |-> IF @.current = Some(id) THEN None ELSE @.current]],
                 save_ok)

set_active(st, app_type, id, save_ok) ==
    IF id \notin ids_in(st[app_type])
    THEN Outcome(st, Err("NotFound", id))
    ELSE IF st[app_type].providers[index_of(st[app_type], id)].app_type # app_type
    THEN Outcome(st, Err("InvalidInput", id))
    ELSE persist(st, [st EXCEPT ![app_type].current = Some(id)], save_ok)

\* the number of profiles held, over all app types
RECURSIVE size_of(_, _)
size_of(st, apps) ==
    IF apps = {} THEN 0
    ELSE LET a == CHOOSE x \in apps : TRUE
         IN  Len(st[a].providers) + size_of(st, apps \ {a})

\* the operation an action applies, its arguments, and the active id of the
\* partition when it was called
StoreLocals(fn, app_type, id, previous) ==
    [fn |-> fn, app_type |-> app_type, id |-> id, previous |-> previous]

----------------------------------------------------------------------------
(* Values of the variables a specification does not use *)

NoResult == [tag |-> "None"]

IdleId == name = EmptyStr /\ existing_ids = <<>> /\ new_id = EmptyStr

IdleMask == key = EmptyStr /\ masked = NoResult

IdlePrompt == current = None /\ locals = NoLocals /\ result = NoResult

IdleStore == store = EmptyStore

----------------------------------------------------------------------------
(* SpecId: generate_provider_id applied to every name and id list *)

InitId ==
    /\ name \in Names
    /\ existing_ids \in ExistingLists
    /\ new_id = EmptyStr
    /\ pc = "generate_provider_id"
    /\ IdleMask
    /\ IdlePrompt
    /\ IdleStore

GenerateProviderId ==
    /\ pc = "generate_provider_id"
    /\ new_id' = generate_provider_id(name, existing_ids)
    /\ pc' = "id_returned"
    /\ UNCHANGED <<name, existing_ids, key, masked, current, locals, result, store>>

NextId == GenerateProviderId

SpecId == InitId /\ [][NextId]_vars

----------------------------------------------------------------------------
(* mask_api_key *)

\* The number of bytes of a character in UTF-8; the character U+00E9 (e with
\* an acute accent, two bytes) is written by its code point
len_utf8(c) == IF c = "U+00E9" THEN 2 ELSE 1

\* The byte offset at which character i of s starts (i = Len(s) + 1: the end)
RECURSIVE byte_offset(_, _)
byte_offset(s, i) ==
    IF i <= 1 THEN 0 ELSE byte_offset(s, i - 1) + len_utf8(s[i - 1])

\* str::len: the length in bytes
byte_len(s) == byte_offset(s, Len(s) + 1)

\* str::is_char_boundary
is_char_boundary(s, b) == \E i \in 1..(Len(s) + 1) : byte_offset(s, i) = b

\* &s[from..to] for offsets that are character boundaries
byte_slice(s, from, to) ==
    LET first == CHOOSE i \in 1..(Len(s) + 1) : byte_offset(s, i) = from
        last  == CHOOSE i \in 1..(Len(s) + 1) : byte_offset(s, i) = to
    IN  SubSeq(s, first, last - 1)

MaskPlaceholder == <<"*", "*", "*">>

MaskSeparator == <<".", ".", ".">>

Returned(v) == [tag |-> "Ok", v |-> v]

Panicked == [tag |-> "Panic", v |-> EmptyStr]

\* Slicing a str at an offset inside a character panics
mask_api_key(k) ==
    IF byte_len(k) <= MaskThreshold THEN Returned(MaskPlaceholder)
    ELSE IF ~is_char_boundary(k, MaskVisible)
            \/ ~is_char_boundary(k, byte_len(k) - MaskVisible)
         THEN Panicked
         ELSE Returned(byte_slice(k, 0, MaskVisible) \o MaskSeparator
                       \o byte_slice(k, byte_len(k) - MaskVisible, byte_len(k)))

MaskAlphabet == {"a", "b", "U+00E9"}

Secrets == SeqsUpTo(MaskAlphabet, MaxKeyLen)

----------------------------------------------------------------------------
(* SpecMask: mask_api_key applied to every secret *)

InitMask ==
    /\ key \in Secrets
    /\ masked = NoResult
    /\ pc = "mask_api_key"
    /\ IdleId
    /\ IdlePrompt
    /\ IdleStore

MaskApiKey ==
    /\ pc = "mask_api_key"
    /\ masked' = mask_api_key(key)
    /\ pc' = "mask_returned"
    /\ UNCHANGED <<name, existing_ids, new_id, key, current, locals, result, store>>

NextMask == MaskApiKey

SpecMask == InitMask /\ [][NextMask]_vars

----------------------------------------------------------------------------
(* Spec: the prompt_* functions of the add/edit flow, one step per prompt   *)

Untouched == UNCHANGED <<name, existing_ids, new_id, key, masked, current, store>>

\* return r
Return(r) == result' = r /\ pc' = "returned"

\* the `?` after a prompt that failed
ReturnInputFailed(r) == Return(input_failed(r.err)) /\ UNCHANGED locals

Init ==
    /\ IdleId
    /\ IdleMask
    /\ IdleStore
    /\ result = NoResult
    /\ \/ /\ pc = "basic_name"
          /\ current \in {None} \cup {Some(p) : p \in Providers}
          /\ locals = BasicLocals
       \/ /\ pc = "optional_notes"
          /\ current \in {None} \cup {Some(p) : p \in Providers}
          /\ locals = OptionalLocals
       \/ /\ pc = "claude_api_key"
          /\ current \in ClaudeCurrents
          /\ locals = ClaudeLocals
       \/ /\ pc = "codex_api_key"
          /\ current \in CodexCurrents
          /\ locals = CodexLocals
       \/ /\ pc = "gemini_detect"
          /\ current \in GeminiCurrents
          /\ locals = GeminiLocals
       \/ /\ pc = "prompt_text"
          /\ current = None
          /\ locals = TextLocals

(* utils.rs prompt_text *)
PromptText ==
    /\ pc = "prompt_text"
    /\ \E r \in TextAnswers(EmptyStr) : Return(handle_inquire(r))
    /\ UNCHANGED locals
    /\ Untouched

(* prompt_basic_fields *)
BasicName ==
    /\ pc = "basic_name"
    /\ \E r \in FieldAnswers(NameInitial(current)) :
          IF ~r.ok THEN ReturnInputFailed(r)
          ELSE IF trim(r.v) = EmptyStr
          THEN Return(Err("InvalidInput", "provider_name_empty")) /\ UNCHANGED locals
          ELSE /\ locals' = [locals EXCEPT !.name_input = r.v, !.name = trim(r.v)]
               /\ pc' = "basic_website_url"
               /\ UNCHANGED result
    /\ Untouched

BasicWebsiteUrl ==
    /\ pc = "basic_website_url"
    /\ \E r \in FieldAnswers(WebsiteInitial(current)) :
          IF ~r.ok THEN ReturnInputFailed(r)
          ELSE /\ locals' = [locals EXCEPT !.website_url_input = r.v]
               /\ Return(Ok([name |-> locals.name, website_url |-> trimmed_or_none(r.v)]))
    /\ Untouched

(* prompt_optional_fields *)
OptionalNotes ==
    /\ pc = "optional_notes"
    /\ \E r \in FieldAnswers(NotesInitial(current)) :
          IF ~r.ok THEN ReturnInputFailed(r)
          ELSE /\ locals' = [locals EXCEPT !.notes_input = r.v,
                                           !.notes = trimmed_or_none(r.v)]
               /\ pc' = "optional_sort_index"
               /\ UNCHANGED result
    /\ Untouched

OptionalSortIndex ==
    /\ pc = "optional_sort_index"
    /\ \E r \in SortIndexAnswers(SortIndexInitial(current)) :
          IF ~r.ok THEN ReturnInputFailed(r)
          ELSE /\ locals' = [locals EXCEPT !.sort_index_str = r.v]
               /\ IF sort_index_of(r.v).tag = "Ok"
                  THEN Return(Ok(optional_fields_of(current, locals.notes,
                                                    sort_index_of(r.v).v)))
                  ELSE Return(sort_index_of(r.v))
    /\ Untouched

(* prompt_claude_config *)
ClaudeApiKey ==
    /\ pc = "claude_api_key"
    /\ \E r \in TextAnswers(unwrap_or_empty(
                    nonempty_str_at(current, "env", "ANTHROPIC_AUTH_TOKEN"))) :
          IF ~r.ok THEN ReturnInputFailed(r)
          ELSE /\ locals' = [locals EXCEPT !.api_key = r.v]
               /\ pc' = "claude_base_url"
               /\ UNCHANGED result
    /\ Untouched

ClaudeBaseUrl ==
    /\ pc = "claude_base_url"
    /\ \E r \in TextAnswers(unwrap_or_empty(
                    nonempty_str_at(current, "env", "ANTHROPIC_BASE_URL"))) :
          IF ~r.ok THEN ReturnInputFailed(r)
          ELSE /\ locals' = [locals EXCEPT !.base_url = r.v]
               /\ pc' = "claude_config_models"
               /\ UNCHANGED result
    /\ Untouched

ClaudeConfigModels ==
    /\ pc = "claude_config_models"
    /\ \E r \in ConfirmAnswers :
          IF ~r.ok THEN ReturnInputFailed(r)
          ELSE /\ locals' = [locals EXCEPT !.config_models = r.v]
               /\ IF r.v THEN pc' = "claude_model_field" /\ UNCHANGED result
                  ELSE Return(claude_config_of(locals'))
    /\ Untouched

\* one call of prompt_model_field: the next of the four model fields
ClaudeModelField ==
    /\ pc = "claude_model_field"
    /\ LET env_key == ModelKeys[Len(locals.models) + 1]
           existing_value == str_at(current, "env", env_key)
       IN  \E r \in TextAnswers(unwrap_or_empty(existing_value)) :
              IF ~r.ok THEN ReturnInputFailed(r)
              ELSE /\ locals' = [locals EXCEPT
                                   !.inputs = Append(@, r.v),
                                   !.models = Append(@, model_field_of(r.v, existing_value))]
                   /\ IF Len(locals'.models) < Len(ModelKeys)
                      THEN pc' = "claude_model_field" /\ UNCHANGED result
                      ELSE Return(claude_config_of(locals'))
    /\ Untouched

(* prompt_codex_config *)
CodexApiKey ==
    /\ pc = "codex_api_key"
    /\ \E r \in TextAnswers(unwrap_or_empty(
                    nonempty_str_at(current, "auth", "OPENAI_API_KEY"))) :
          IF ~r.ok THEN ReturnInputFailed(r)
          ELSE /\ locals' = [locals EXCEPT !.api_key = r.v]
               /\ pc' = "codex_use_default"
               /\ UNCHANGED result
    /\ Untouched

CodexUseDefault ==
    /\ pc = "codex_use_default"
    /\ \E r \in ConfirmAnswers :
          IF ~r.ok THEN ReturnInputFailed(r)
          ELSE IF r.v
          THEN /\ locals' = [locals EXCEPT !.use_default = TRUE,
                                           !.config_toml = Some(default_toml_of(current))]
               /\ Return(codex_config_of(locals.api_key, default_toml_of(current)))
          ELSE /\ locals' = [locals EXCEPT !.use_default = FALSE]
               /\ pc' = "codex_line"
               /\ UNCHANGED result
    /\ Untouched

\* one turn of the line-entry loop
CodexLine ==
    /\ pc = "codex_line"
    /\ \E r \in LineAnswers :
          \/ /\ ~r.ok
             /\ ReturnInputFailed(r)
          \/ /\ r.ok /\ loop_breaks(r.v, locals.lines)
             /\ locals' = [locals EXCEPT
                             !.line = Some(r.v),
                             !.config_toml = Some(entered_toml_of(current, locals.lines))]
             /\ Return(codex_config_of(locals.api_key,
                                       entered_toml_of(current, locals.lines)))
          \/ /\ r.ok /\ ~loop_breaks(r.v, locals.lines) /\ ~line_is_pushed(r.v)
             /\ locals' = [locals EXCEPT !.line = Some(r.v)]
             /\ UNCHANGED <<pc, result>>
          \/ /\ r.ok /\ ~loop_breaks(r.v, locals.lines) /\ line_is_pushed(r.v)
             /\ Len(locals.lines) < MaxLines
             /\ locals' = [locals EXCEPT !.line = Some(r.v), !.lines = Append(@, r.v)]
             /\ UNCHANGED <<pc, result>>
    /\ Untouched

(* prompt_gemini_config *)
GeminiDetect ==
    /\ pc = "gemini_detect"
    /\ locals' = [locals EXCEPT
                    !.current_auth_type = detect_gemini_auth_type(current),
                    !.default_index = default_index_of(detect_gemini_auth_type(current))]
    /\ pc' = "gemini_auth_type"
    /\ UNCHANGED result
    /\ Untouched

GeminiAuthType ==
    /\ pc = "gemini_auth_type"
    /\ \E r \in SelectAnswers :
          IF ~r.ok THEN ReturnInputFailed(r)
          ELSE /\ locals' = [locals EXCEPT !.auth_type = r.v]
               /\ IF r.v = 0
                  THEN Return(gemini_config_of(0, EmptyStr, EmptyStr))
                  ELSE pc' = "gemini_api_key" /\ UNCHANGED result
    /\ Untouched

GeminiApiKey ==
    /\ pc = "gemini_api_key"
    /\ \E r \in TextAnswers(unwrap_or_empty(
                    nonempty_str_at(current, "env", "GEMINI_API_KEY"))) :
          IF ~r.ok THEN ReturnInputFailed(r)
          ELSE /\ locals' = [locals EXCEPT !.api_key = r.v]
               /\ pc' = "gemini_base_url"
               /\ UNCHANGED result
    /\ Untouched

GeminiBaseUrl ==
    /\ pc = "gemini_base_url"
    /\ \E r \in UrlAnswers(unwrap_or_empty(
                    nonempty_str_at(current, "env", gemini_url_key(locals.auth_type)))) :
          IF ~r.ok THEN ReturnInputFailed(r)
          ELSE /\ locals' = [locals EXCEPT !.base_url = r.v]
               /\ Return(gemini_config_of(locals.auth_type, locals.api_key, r.v))
    /\ Untouched

Next ==
    \/ PromptText
    \/ BasicName
    \/ BasicWebsiteUrl
    \/ OptionalNotes
    \/ OptionalSortIndex
    \/ ClaudeApiKey
    \/ ClaudeBaseUrl
    \/ ClaudeConfigModels
    \/ ClaudeModelField
    \/ CodexApiKey
    \/ CodexUseDefault
    \/ CodexLine
    \/ GeminiDetect
    \/ GeminiAuthType
    \/ GeminiApiKey
    \/ GeminiBaseUrl

Spec == Init /\ [][Next]_vars

----------------------------------------------------------------------------
(* SpecStore: the store of get_state under add, update, remove, set_active *)

StoreUntouched == UNCHANGED <<name, existing_ids, new_id, key, masked, current>>

\* apply an operation's outcome
Commit(out) == store' = out.store /\ result' = out.result

InitStore ==
    /\ IdleId
    /\ IdleMask
    /\ current = None
    /\ locals = NoLocals
    /\ \E loaded \in LoadResults :
          /\ result = get_state(loaded)
          /\ IF loaded.tag = "Ok"
             THEN store = loaded.v /\ pc = "store_ready"
             ELSE store = EmptyStore /\ pc = "returned"

StoreAdd ==
    /\ pc = "store_ready"
    /\ size_of(store, AppTypes) < MaxProfiles
    /\ \E a \in AppTypes, id \in StoreIds, n \in StoreNames, save_ok \in BOOLEAN :
          /\ locals' = StoreLocals("add", a, id, store[a].current)
          /\ Commit(add(store, StoredProfile(id, a, n), save_ok))
    /\ UNCHANGED pc
    /\ StoreUntouched

StoreUpdate ==
    /\ pc = "store_ready"
    /\ \E a \in AppTypes, id \in StoreIds, n \in StoreNames, save_ok \in BOOLEAN :
          /\ locals' = StoreLocals("update", a, id, store[a].current)
          /\ Commit(update(store, a, id, n, save_ok))
    /\ UNCHANGED pc
    /\ StoreUntouched

StoreRemove ==
    /\ pc = "store_ready"
    /\ \E a \in AppTypes, id \in StoreIds, save_ok \in BOOLEAN :
          /\ locals' = StoreLocals("remove", a, id, store[a].current)
          /\ Commit(remove(store, a, id, save_ok))
    /\ UNCHANGED pc
    /\ StoreUntouched

StoreSetActive ==
    /\ pc = "store_ready"
    /\ \E a \in AppTypes, id \in StoreIds, save_ok \in BOOLEAN :
          /\ locals' = StoreLocals("set_active", a, id, store[a].current)
          /\ Commit(set_active(store, a, id, save_ok))
    /\ UNCHANGED pc
    /\ StoreUntouched

NextStore ==
    \/ StoreAdd
    \/ StoreUpdate
    \/ StoreRemove
    \/ StoreSetActive

SpecStore == InitStore /\ [][NextStore]_vars

----------------------------------------------------------------------------
(* Claims about generate_provider_id, checked under SpecId *)

\* C1: for every name and every list of existing ids, the id returned is not
\* one of the existing ids, and it is a function of the name and of the SET of
\* existing ids: any other list holding the same ids (another order, with
\* repetitions) gives the same id.
C1_IdFreshAndDeterministic ==
    pc = "id_returned" =>
        /\ ~contains(existing_ids, new_id)
        /\ \A other \in ExistingLists :
               Range(other) = Range(existing_ids)
                   => generate_provider_id(name, other) = new_id

\* C1 witness: the base id and its first suffix are both taken, by a list
\* that has a different list with the same ids
C1_Witness ==
    /\ pc = "id_returned"
    /\ Len(existing_ids) = 2
    /\ existing_ids[1] # existing_ids[2]
    /\ contains(existing_ids, base_id_of(name))
    /\ contains(existing_ids, candidate_of(base_id_of(name), 1))
    /\ new_id = candidate_of(base_id_of(name), 2)

\* The normalized name as the specification words it: lowercased, every
\* character other than alphanumerics, '-' and '_' replaced by '-', and the
\* leading and trailing '-' removed.
C8_Replaced(n) ==
    [i \in 1..Len(n) |->
        LET c == to_lowercase_char(n[i])
        IN  IF c \in LowerCase \cup Digits \cup {"-", "_"} THEN c ELSE "-"]

C8_Normalized(n) ==
    LET m == C8_Replaced(n)
    IN  IF \A i \in 1..Len(m) : m[i] = "-" THEN EmptyStr
        ELSE LET i == CHOOSE i \in 1..Len(m) :
                          m[i] # "-" /\ \A k \in 1..(i - 1) : m[k] = "-"
                 j == CHOOSE j \in 1..Len(m) :
                          m[j] # "-" /\ \A k \in (j + 1)..Len(m) : m[k] = "-"
             IN  [k \in 1..(j - i + 1) |-> m[i + k - 1]]

C8_Expected(n, ids) ==
    LET b == C8_Normalized(n)
        taken == Range(ids)
        cand(k) == b \o <<"-">> \o to_string(k)
    IN  IF b \notin taken THEN b
        ELSE cand(CHOOSE k \in 1..(Len(ids) + 1) :
                      cand(k) \notin taken /\ \A j \in 1..(k - 1) : cand(j) \in taken)

\* C8: the id returned is the normalized name when that is not an existing id,
\* and otherwise the normalized name followed by "-k" for the smallest k >= 1
\* that gives an id not among the existing ones; "Open AI Mirror" gives
\* "open-ai-mirror", and "open-ai-mirror-1" once that id exists.
C8_IdIsNormalizedNameWithLeastSuffix ==
    pc = "id_returned" =>
        /\ new_id = C8_Expected(name, existing_ids)
        /\ (name = OpenAIMirror /\ ~contains(existing_ids, open_ai_mirror))
               => new_id = open_ai_mirror
        /\ (name = OpenAIMirror /\ contains(existing_ids, open_ai_mirror))
               => new_id = open_ai_mirror \o <<"-", "1">>

\* C8 witness: the second profile named "Open AI Mirror"
C8_Witness ==
    /\ pc = "id_returned"
    /\ name = OpenAIMirror
    /\ existing_ids = <<open_ai_mirror>>
    /\ new_id = open_ai_mirror \o <<"-", "1">>

\* The uniqueness search started from the literal base "-"
C7_FromDashBase(ids) ==
    LET taken == Range(ids)
        cand(k) == <<"-", "-">> \o to_string(k)
    IN  IF <<"-">> \notin taken THEN <<"-">>
        ELSE cand(CHOOSE k \in 1..(Len(ids) + 1) :
                      cand(k) \notin taken /\ \A j \in 1..(k - 1) : cand(j) \in taken)

\* C7: the id returned is never the empty string: a name whose normalized
\* form is empty is given the id that the search finds from the base "-".
\* (Stated for the names prompt_basic_fields lets through: non-empty once
\* trimmed of whitespace.)
C7_IdNeverEmpty ==
    (pc = "id_returned" /\ trim(name) # EmptyStr) =>
        /\ new_id # EmptyStr
        /\ base_id_of(name) = EmptyStr => new_id = C7_FromDashBase(existing_ids)

----------------------------------------------------------------------------
(* Claims about mask_api_key, checked under SpecMask *)

\* C9: masking is defined for every secret and never fails; a secret of 0 to 8
\* characters gives the placeholder "***", a longer one gives its first 4
\* characters, the separator and its last 4 characters (so nothing of what
\* lies between them).
C9_MaskTotalAndHidesMiddle ==
    pc = "mask_returned" =>
        /\ masked.tag = "Ok"
        /\ Len(key) <= 8 => masked.v = MaskPlaceholder
        /\ Len(key) > 8 =>
               masked.v = SubSeq(key, 1, 4) \o MaskSeparator
                          \o SubSeq(key, Len(key) - 3, Len(key))

----------------------------------------------------------------------------
(* Claims about the prompt_* functions, checked under Spec *)

Returned_by(fn) == pc = "returned" /\ locals.fn = fn

\* the env keys of the payload being edited that the session does not prompt for
C2_UnpromptedKeys ==
    DOMAIN current.v.env
        \ ({"ANTHROPIC_AUTH_TOKEN", "ANTHROPIC_BASE_URL"}
             \cup (IF locals.config_models THEN Range(ModelKeys) ELSE {}))

\* C2: in an edit, every field of the existing profile that the session does
\* not prompt for is in the result with the same value: the env keys of a
\* Claude payload (the model overrides when the user declines to configure
\* models, and the keys other producers wrote), and icon / icon_color.
C2_EditKeepsUnpromptedFields ==
    (pc = "returned" /\ result.tag = "Ok" /\ current.some) =>
        /\ (locals.fn = "prompt_claude_config" /\ "env" \in DOMAIN current.v) =>
               \A k \in C2_UnpromptedKeys :
                   /\ k \in DOMAIN result.v.env
                   /\ result.v.env[k] = current.v.env[k]
        /\ locals.fn = "prompt_optional_fields" =>
               /\ result.v.icon = current.v.icon
               /\ result.v.icon_color = current.v.icon_color

\* C3: in an edit, submitting every prompt as pre-filled gives back the existing
\* values: name and website_url, the optional fields of the profile
\* (OptionalFields::from_provider of it), and each of the four model overrides.
C3_PrefilledResubmittedKeepsProfile ==
    (pc = "returned" /\ result.tag = "Ok" /\ current.some) =>
        /\ ( /\ locals.fn = "prompt_basic_fields"
             /\ locals.name_input = NameInitial(current)
             /\ locals.website_url_input = WebsiteInitial(current) ) =>
               result.v = [name |-> current.v.name, website_url |-> current.v.website_url]
        /\ ( /\ locals.fn = "prompt_optional_fields"
             /\ locals.notes_input = NotesInitial(current)
             /\ locals.sort_index_str = SortIndexInitial(current) ) =>
               result.v = from_provider(current.v)
        /\ ( /\ locals.fn = "prompt_claude_config"
             /\ locals.config_models
             /\ \A i \in 1..Len(ModelKeys) :
                    locals.inputs[i] = unwrap_or_empty(str_at(current, "env", ModelKeys[i])) ) =>
               \A i \in 1..Len(ModelKeys) :
                   str_at(Some(result.v), "env", ModelKeys[i])
                       = str_at(current, "env", ModelKeys[i])

\* C4: when an edit of a Claude profile that has an auth token and a base url
\* submits a blank for a field that had a value, the payload has no key for
\* that field; no key of the payload maps to the empty string; the auth token
\* submitted as pre-filled is kept.
C4_ClearedFieldHasNoKey ==
    ( /\ Returned_by("prompt_claude_config")
      /\ result.tag = "Ok"
      /\ nonempty_str_at(current, "env", "ANTHROPIC_AUTH_TOKEN").some
      /\ nonempty_str_at(current, "env", "ANTHROPIC_BASE_URL").some ) =>
        /\ trim(locals.base_url) = EmptyStr => "ANTHROPIC_BASE_URL" \notin DOMAIN result.v.env
        /\ \A i \in 1..Len(locals.inputs) :
               (str_at(current, "env", ModelKeys[i]).some /\ trim(locals.inputs[i]) = EmptyStr)
                   => ModelKeys[i] \notin DOMAIN result.v.env
        /\ \A k \in DOMAIN result.v.env : result.v.env[k] # EmptyStr
        /\ locals.api_key = current.v.env["ANTHROPIC_AUTH_TOKEN"]
               => str_at(Some(result.v), "env", "ANTHROPIC_AUTH_TOKEN")
                      = Some(current.v.env["ANTHROPIC_AUTH_TOKEN"])

\* C5: a prompt of the add/edit input flow that the user cancels never ends
\* the operation with an error value: the outcome is distinct from failure.
C5_CancelIsNotAnError ==
    ( /\ pc = "returned"
      /\ locals.fn \in {"prompt_basic_fields", "prompt_optional_fields",
                        "prompt_claude_config", "prompt_codex_config",
                        "prompt_gemini_config"}
      /\ result.tag = "Err" ) =>
        result.cause # "OperationCanceled"

\* C6: prompt_codex_config returns a payload only with the text that passed
\* validation in it; when the text fails validation it returns the validation
\* error and no payload; and no step changes the payload being edited.
C6_CodexPayloadOnlyIfValidated ==
    /\ [](Returned_by("prompt_codex_config") =>
            /\ result.tag = "Ok" =>
                   /\ locals.config_toml.some
                   /\ result.v.config = locals.config_toml.v
                   /\ validate_config_toml(result.v.config)
            /\ (locals.config_toml.some /\ ~validate_config_toml(locals.config_toml.v)) =>
                   result = Err("Toml", "invalid config.toml"))
    /\ [][locals.fn = "prompt_codex_config" => current' = current]_vars

\* C6 witness: end-to-end scenario 4, the edit of a profile in which the user
\* enters base_url = "x" and the unbalanced model = [1,2
C6_Witness ==
    /\ Returned_by("prompt_codex_config")
    /\ current.some
    /\ locals.lines = <<LineBaseUrl, LineUnbalanced>>
    /\ result.tag = "Err"
    /\ result.kind = "Toml"

\* the env mapping of a payload, empty when the payload has none
C10_Env(cur) ==
    IF cur.some /\ "env" \in DOMAIN cur.v /\ cur.v.env # JsonNull
    THEN cur.v.env ELSE EmptyObject

C10_HasMarker(url) ==
    \E i \in 1..Len(url) : \E j \in i..Len(url) : SubSeq(url, i, j) = PackyMarker

\* what the detection rule of the specification gives
C10_Expected(cur) ==
    LET env == C10_Env(cur)
    IN  IF "GEMINI_API_KEY" \in DOMAIN env
        THEN (IF "GOOGLE_GEMINI_BASE_URL" \in DOMAIN env
                 /\ C10_HasMarker(env["GOOGLE_GEMINI_BASE_URL"])
              THEN Some("packycode") ELSE Some("generic"))
        ELSE IF DOMAIN env = {} THEN Some("oauth") ELSE None

\* C10: for every existing Gemini payload the detected auth mode is OAuth when
\* there is no key and the env mapping is empty (or missing), PackyCode when a
\* key is present and GOOGLE_GEMINI_BASE_URL contains "packycode", generic when
\* a key is present otherwise, and indeterminate when the key is absent and
\* the env mapping is not empty; in the indeterminate case the Select is only
\* preselected on PackyCode (index 1): nothing is returned by that, and the
\* payload being edited is not changed.
C10_GeminiDetection ==
    /\ []((locals.fn = "prompt_gemini_config" /\ pc # "gemini_detect") =>
            /\ locals.current_auth_type = C10_Expected(current)
            /\ locals.current_auth_type = None => locals.default_index = 1
            /\ pc = "gemini_auth_type" => result = NoResult)
    /\ [][locals.fn = "prompt_gemini_config" => current' = current]_vars

\* C10 witness: a payload with no key and a non-empty env has been detected
C10_Witness ==
    /\ locals.fn = "prompt_gemini_config"
    /\ pc = "gemini_auth_type"
    /\ current.some
    /\ "env" \in DOMAIN current.v
    /\ current.v.env # JsonNull
    /\ DOMAIN current.v.env # {}
    /\ "GEMINI_API_KEY" \notin DOMAIN current.v.env
    /\ locals.current_auth_type = None
    /\ locals.default_index = 1

\* the text is one or more decimal digits
C11_AllDigits(t) == t # <<>> /\ \A i \in 1..Len(t) : t[i] \in Digits

\* the integer a digit string denotes, as the digits without leading zeros
C11_Canonical(t) ==
    IF \A i \in 1..Len(t) : t[i] = "0" THEN <<"0">>
    ELSE LET first == CHOOSE i \in 1..Len(t) :
                          t[i] # "0" /\ \A j \in 1..(i - 1) : t[j] = "0"
         IN  [k \in 1..(Len(t) - first + 1) |-> t[first + k - 1]]

\* a canonical digit string denotes at most usize::MAX (2^64 - 1)
C11_FitsUsize(n) ==
    \/ Len(n) < Len(UsizeMaxDigits)
    \/ n = UsizeMaxDigits
    \/ /\ Len(n) = Len(UsizeMaxDigits)
       /\ \E i \in 1..Len(n) :
             /\ \A j \in 1..(i - 1) : n[j] = UsizeMaxDigits[j]
             /\ DigitValue(n[i]) < DigitValue(UsizeMaxDigits[i])

\* the text without the whitespace around it
C11_Body(t) ==
    LET inside == {i \in 1..Len(t) : t[i] \notin Whitespace}
    IN  IF inside = {} THEN EmptyStr
        ELSE SubSeq(t, CHOOSE i \in inside : \A j \in inside : i <= j,
                       CHOOSE i \in inside : \A j \in inside : j <= i)

\* prompt_optional_fields has returned after the sort_index prompt was answered
C11_SortIndexAnswered ==
    /\ Returned_by("prompt_optional_fields")
    /\ ~(result.tag = "Err" /\ result.kind = "Message")

C11_Rejected == result.tag = "Err" /\ result.kind = "InvalidInput"

C11_Accepted(n) == result.tag = "Ok" /\ result.v.sort_index = Some(n)

\* the digits of a decimal form: str::parse reads an optional leading '+' as
\* part of the form
C11_DigitsOf(body) ==
    IF body # <<>> /\ body[1] = "+" THEN SubSeq(body, 2, Len(body)) ELSE body

\* C11 as stated: blank input gives no sort_index, the decimal form of a
\* non-negative integer gives that integer however large it is, and every
\* other non-blank input is rejected with InvalidInput.
C11_SortIndexUnbounded ==
    C11_SortIndexAnswered =>
        LET body == C11_Body(locals.sort_index_str)
        IN  IF body = EmptyStr THEN result.tag = "Ok" /\ result.v.sort_index = None
            ELSE IF C11_AllDigits(C11_DigitsOf(body))
            THEN C11_Accepted(C11_Canonical(C11_DigitsOf(body)))
            ELSE C11_Rejected

\* C11 amended: blank input gives no sort_index; the decimal form of a
\* non-negative integer of at most usize::MAX (2^64 - 1) gives that integer;
\* every other non-blank input, the decimal form of a larger integer
\* included, is rejected with InvalidInput.
C11_SortIndexWithinUsize ==
    C11_SortIndexAnswered =>
        LET body == C11_Body(locals.sort_index_str)
        IN  IF body = EmptyStr THEN result.tag = "Ok" /\ result.v.sort_index = None
            ELSE IF /\ C11_AllDigits(C11_DigitsOf(body))
                    /\ C11_FitsUsize(C11_Canonical(C11_DigitsOf(body)))
            THEN C11_Accepted(C11_Canonical(C11_DigitsOf(body)))
            ELSE C11_Rejected

\* C11 witness: 2^64 was submitted and rejected
C11_Witness ==
    /\ C11_SortIndexAnswered
    /\ locals.sort_index_str = SubSeq(UsizeMaxDigits, 1, 19) \o <<"6">>
    /\ C11_Rejected

----------------------------------------------------------------------------
(* Claims about the profile store, checked under SpecStore *)

C12_Present(st, app_type, id) ==
    \E i \in 1..Len(st[app_type].providers) : st[app_type].providers[i].id = id

\* C12: after any sequence of add, update, remove and set_active the active
\* id of each app type's partition is none or the id of a profile of that
\* partition; a remove of the active profile leaves the partition's active
\* pointer none; set_active with an id absent from the partition returns
\* NotFound and leaves every active pointer as it was.
C12_ActivePointerIntegrity ==
    /\ [](\A a \in AppTypes :
             store[a].current.some => C12_Present(store, a, store[a].current.v))
    /\ [][/\ (/\ locals'.fn = "remove"
              /\ result'.tag = "Ok"
              /\ store[locals'.app_type].current = Some(locals'.id))
             => store'[locals'.app_type].current = None
          /\ (/\ locals'.fn = "set_active"
              /\ ~C12_Present(store, locals'.app_type, locals'.id))
             => /\ result'.tag = "Err"
                /\ result'.kind = "NotFound"
                /\ \A a \in AppTypes : store'[a].current = store[a].current]_vars

\* C12 witness: the active profile of a partition holding two profiles was
\* removed
C12_Witness ==
    /\ locals.fn = "remove"
    /\ result.tag = "Ok"
    /\ locals.previous = Some(locals.id)
    /\ store[locals.app_type].current = None
    /\ Len(store[locals.app_type].providers) = 1

----------------------------------------------------------------------------
(* Claims about the round trip of prompt_gemini_config, checked under Spec *)

\* the name detect_gemini_auth_type gives the mode at an index of the Select
C13_ModeAt(index) ==
    CASE index = 0 -> "oauth"
      [] index = 1 -> "packycode"
      [] index = 2 -> "generic"

\* the payload being edited is one prompt_gemini_config builds
C13_BuiltByPrompt(cur) ==
    /\ cur.some
    /\ \E mode \in 0..2, k \in {EmptyStr, <<"k">>}, u \in {EmptyStr, PackyUrl, OtherUrl} :
          cur.v = gemini_config_of(mode, k, u).v

\* the preselected mode was chosen and the values shown were submitted as
\* they were
C13_DefaultsAccepted ==
    /\ locals.auth_type = locals.default_index
    /\ locals.auth_type # 0 =>
          /\ locals.api_key =
                unwrap_or_empty(nonempty_str_at(current, "env", "GEMINI_API_KEY"))
          /\ locals.base_url =
                unwrap_or_empty(nonempty_str_at(current, "env",
                                                gemini_url_key(locals.auth_type)))

\* C13: the payload prompt_gemini_config returns for the mode selected is
\* classified as that mode by detect_gemini_auth_type, whatever key and base
\* url were entered; and an edit of a payload it built that accepts the
\* preselected mode and the pre-filled values returns the same payload.
C13_ModeRoundTrip ==
    (Returned_by("prompt_gemini_config") /\ result.tag = "Ok") =>
        /\ detect_gemini_auth_type(Some(result.v)) = Some(C13_ModeAt(locals.auth_type))
        /\ (C13_BuiltByPrompt(current) /\ C13_DefaultsAccepted) => result.v = current.v

----------------------------------------------------------------------------
(* Claims about the line-entry loop of prompt_codex_config, checked under Spec *)

C14_Blank(line) == \A i \in 1..Len(line) : line[i] \in Whitespace

\* the first n lines, a newline between each two
RECURSIVE C14_Joined(_, _)
C14_Joined(lines, n) ==
    IF n = 0 THEN EmptyStr
    ELSE IF n = 1 THEN lines[1]
    ELSE C14_Joined(lines, n - 1) \o <<"\n">> \o lines[n]

\* a turn of the loop in which the prompt was answered
C14_LineEntered ==
    /\ pc = "codex_line"
    /\ ~(result'.tag = "Err" /\ result'.kind = "Message")

\* C14: once the current/default text is declined, a blank line entered while
\* no line is collected only prompts again, a non-blank line is collected
\* after those before it, and the loop ends at the first blank line entered
\* with at least one line collected; the text then yielded is the collected
\* lines, all non-blank, in entry order joined by newlines: it is never empty
\* and never the previous/default text of the fall-back.
C14_LoopEndsAtBlankAfterContent ==
    /\ []((/\ Returned_by("prompt_codex_config")
           /\ ~locals.use_default
           /\ locals.config_toml.some)
          => /\ locals.lines # <<>>
             /\ \A i \in 1..Len(locals.lines) : ~C14_Blank(locals.lines[i])
             /\ C14_Blank(locals.line.v)
             /\ locals.config_toml.v = C14_Joined(locals.lines, Len(locals.lines))
             /\ locals.config_toml.v # EmptyStr)
    /\ [][C14_LineEntered =>
            IF ~C14_Blank(locals'.line.v)
            THEN pc' = "codex_line" /\ locals'.lines = Append(locals.lines, locals'.line.v)
            ELSE IF locals.lines = <<>>
            THEN pc' = "codex_line" /\ locals'.lines = <<>>
            ELSE /\ pc' = "returned"
                 /\ locals'.lines = locals.lines
                 /\ locals'.config_toml.some]_vars

\* C14 witness: two lines of text were collected and the blank line entered
\* after them ended the loop with both lines joined
C14_Witness ==
    /\ Returned_by("prompt_codex_config")
    /\ ~locals.use_default
    /\ locals.lines = <<LineBaseUrl, LineBaseUrl>>
    /\ locals.line = Some(<<" ">>)
    /\ result.tag = "Ok"
    /\ result.v.config = LineBaseUrl \o <<"\n">> \o LineBaseUrl

====
